---- MODULE Spec2Model ----
(***************************************************************************)
(* Model of mindsdb/interfaces/storage/fs.py: the resource directory of    *)
(* one resource identity, its backing store (LocalFSStore or S3FSStore),   *)
(* the FileLock on dir.lock and the FileStorage operations, run by         *)
(* separate processes of one host.                                         *)
(***************************************************************************)
EXTENDS Integers, Sequences, FiniteSets, Bags, TLC

(* ------------------------------ bounds --------------------------------- *)
\* number of FileStorage operations started in one behaviour
MaxOps == 2
\* calls of put each thread makes
MaxPuts == 2
\* calendar year of the object store's clock
EpochYear == 2024

(* ------------------------- program constants --------------------------- *)
\* length of a timestamp written with dt_format
MarkerSize == 24

Procs == {1, 2}
Names == {"a"}
Content == {<<1>>, <<2, 2>>}
LockName == "dir.lock"
MarkerName == "last_modified.txt"
AllNames == Names \cup {LockName, MarkerName}
\* sorted directory listing, the order in which an archive lists its members
NameOrder == <<"a", "dir.lock", "last_modified.txt">>
\* values of psutil.virtual_memory().available
MemoryAvail == 1000
DiskAvail == 1
AvailChoices == {DiskAvail, MemoryAvail}
AbsPath == "/abs"
RootArg == "."

(* --------------------------- file system trees ------------------------- *)
NoEnt == [k |-> "none"]
File(c, n) == [k |-> "file", c |-> c, n |-> n]
Dir(ch) == [k |-> "dir", ch |-> ch]
EmptyDir == Dir([x \in AllNames |-> NoEnt])
IsFile(t) == t.k = "file"
IsDir(t) == t.k = "dir"
Exists(t) == t.k # "none"

\* the entry at a path below t (a sequence of names), NoEnt when there is none
RECURSIVE GetAt(_, _)
GetAt(t, path) ==
    IF path = <<>> THEN t
    ELSE IF ~IsDir(t) THEN NoEnt
    ELSE GetAt(t.ch[Head(path)], Tail(path))

\* t with the entry at path set to v; missing parents are made (makedirs)
RECURSIVE SetAt(_, _, _)
SetAt(t, path, v) ==
    IF path = <<>> THEN v
    ELSE LET d == IF IsDir(t) THEN t ELSE EmptyDir
         IN  Dir([d.ch EXCEPT ![Head(path)] = SetAt(@, Tail(path), v)])

\* the parent directory of path exists below t
ParentOk(t, path) ==
    path = <<>> \/ IsDir(GetAt(t, SubSeq(path, 1, Len(path) - 1)))

RECURSIVE SumSizes(_, _)
RECURSIVE get_dir_size(_)
\* get_dir_size of a directory tree
get_dir_size(t) == SumSizes(t, NameOrder)
SumSizes(t, names) ==
    IF names = <<>> THEN 0
    ELSE LET e == t.ch[Head(names)]
         IN  (IF IsFile(e) THEN e.n ELSE IF IsDir(e) THEN get_dir_size(e) ELSE 0)
             + SumSizes(t, Tail(names))

\* sum of the sizes of the files below a path, 0 for a file or a missing path
GlobSize(t) == IF IsDir(t) THEN get_dir_size(t) ELSE 0

RECURSIVE BagOfFiles(_, _)
RECURSIVE dirhash(_)
\* checksumdir.dirhash: the hash of the sorted hashes of the files' contents
\* (file names and empty directories do not enter it)
dirhash(t) == BagOfFiles(t, NameOrder)
BagOfFiles(t, names) ==
    IF names = <<>> THEN EmptyBag
    ELSE LET e == t.ch[Head(names)]
         IN  (IF IsFile(e) THEN SetToBag({e.c}) ELSE IF IsDir(e) THEN dirhash(e) ELSE EmptyBag)
             (+) BagOfFiles(t, Tail(names))

\* hashlib.md5 of a file's bytes
md5(f) == f.c

\* children of a directory in listing order
Children(t) == SelectSeq(NameOrder, LAMBDA n : Exists(t.ch[n]))

\* copy(src, dst): the entry at dst afterwards.  err: an exception left copy;
\* replaced: dst was removed and built anew
copy(src, dst, parentOk) ==
    IF IsDir(src) THEN
        IF Exists(dst) /\ ~IsDir(dst) THEN [err |-> TRUE, out |-> dst, replaced |-> FALSE]
        ELSE IF Exists(dst) /\ dirhash(src) = dirhash(dst)
            THEN [err |-> FALSE, out |-> dst, replaced |-> FALSE]
        ELSE [err |-> FALSE, out |-> src, replaced |-> TRUE]
    ELSE
        IF ~Exists(src) THEN [err |-> TRUE, out |-> dst, replaced |-> FALSE]
        ELSE IF IsDir(dst) THEN [err |-> TRUE, out |-> dst, replaced |-> FALSE]
        ELSE IF IsFile(dst) /\ md5(src) = md5(dst)
            THEN [err |-> FALSE, out |-> dst, replaced |-> FALSE]
        ELSE IF ~parentOk THEN [err |-> TRUE, out |-> NoEnt, replaced |-> FALSE]
        ELSE [err |-> FALSE, out |-> src, replaced |-> TRUE]

(* ------------------------------- state --------------------------------- *)
VARIABLES
    storeKind,  \* Config()['permanent_storage']['location']: "local" or "s3"
    local,      \* the tree at folder_path (resource_group_path / folder_name)
    lockIno,    \* inode of folder_path / dir.lock, 0 when there is no such file
    storage,    \* LocalFSStore: the tree at storage / folder_name
    bucket,     \* S3FSStore: object key -> object
    clock,      \* S3FSStore: the object store's clock, in seconds
    pc,         \* per process: position in the running operation
    cur,        \* per process: the running operation and its arguments
    sync,       \* per process: FileStorage.sync of its instance
    fd,         \* per process: inode FileLock._file is open on, 0 when none
    holds,      \* per process: it holds the flock on fd
    res,        \* per process: outcome of the last operation
    tr,         \* per process: what the running operation did to the store
    deleted,    \* per process: its instance has completed a root delete
    solo,       \* per process: no other process ran during its operation
    rt,         \* the last file_set that returned, not followed by a write
    lastSync,   \* S3: remote last-modified at the last sync of the local cache
    lastPush,   \* what the store held after the last push, not followed by a call
    nOps,       \* operations started so far
    cwd,        \* threads of one process: os.getcwd() of the process
    thread_lock,\* threads of one process: S3FSStore._thread_lock per store instance
    th          \* threads of one process: each thread's position inside put

\* the state of the threads inside S3FSStore.put
putVars == <<cwd, thread_lock, th>>
\* the state of the processes sharing a resource directory
procVars == <<storeKind, local, lockIno, storage, bucket, clock, pc, cur,
              sync, fd, holds, res, tr, deleted, solo, rt, lastSync, lastPush, nOps>>

vars == <<storeKind, local, lockIno, storage, bucket, clock, pc, cur,
          sync, fd, holds, res, tr, deleted, solo, rt, lastSync, lastPush, nOps,
          cwd, thread_lock, th>>

(* ------------------------------- names --------------------------------- *)
\* names are sequences of tokens, so that joining, suffixing and
\* str.replace act on them as they do on the strings
folder_name == <<"folder_name">>
JoinPath(a, n) == a \o <<"/", n>>
ZipName(name) == name \o <<".", "tar.gz">>
StripTarGz(name) == SelectSeq(name, LAMBDA t : t # "tar.gz")
LocalNames == {folder_name} \cup {JoinPath(folder_name, n) : n \in Names}
Keys == LocalNames \cup {ZipName(n) : n \in LocalNames}

\* the components of a name, split at "/"
RECURSIVE Split(_, _)
Split(name, acc) ==
    IF name = <<>> THEN <<acc>>
    ELSE IF Head(name) = "/" THEN <<acc>> \o Split(Tail(name), <<>>)
    ELSE Split(Tail(name), Append(acc, Head(name)))

\* a name relative to base_dir (resource_group_path, or the store's root):
\* ok when it lies at or below folder_name, path its names below folder_name
PathOf(name) ==
    LET comps == Split(name, <<>>)
    IN  IF /\ Len(comps) >= 1
           /\ comps[1] = folder_name
           /\ \A i \in 2..Len(comps) : Len(comps[i]) = 1 /\ comps[i][1] \in AllNames
        THEN [ok |-> TRUE, path |-> [i \in 1..(Len(comps) - 1) |-> comps[i + 1][1]]]
        ELSE [ok |-> FALSE, path |-> <<>>]

\* the entry base_dir / name of a tree rooted at base_dir / folder_name
EntryAt(t, name) == IF PathOf(name).ok THEN GetAt(t, PathOf(name).path) ELSE NoEnt

(* --------------------------- LocalFSStore ------------------------------ *)
\* LocalFSStore.get(local_name, base_dir): err, the local tree afterwards,
\* and whether folder_path itself was removed and copied anew
LocalGet(local_name, io) ==
    LET path == PathOf(local_name).path
        src == EntryAt(storage, local_name)
        dest == EntryAt(local, local_name)
        same == [err |-> FALSE, loc |-> local, replaced |-> FALSE, dl |-> 0, synced |-> FALSE]
        fail == [err |-> TRUE, loc |-> local, replaced |-> FALSE, dl |-> 0, synced |-> FALSE]
    IN  IF io = "fail" THEN fail
        ELSE IF Exists(dest) /\ (~IsDir(src) \/ ~IsDir(dest)) THEN fail
        ELSE IF Exists(dest) /\ get_dir_size(src) = get_dir_size(dest) THEN same
        ELSE LET c == copy(src, dest, ParentOk(local, path))
             IN  IF c.err THEN fail
                 ELSE [err |-> FALSE,
                       loc |-> IF c.replaced THEN SetAt(local, path, c.out) ELSE local,
                       replaced |-> c.replaced /\ path = <<>>,
                       dl |-> 0, synced |-> FALSE]

\* LocalFSStore.put(local_name, base_dir, compression_level): err and the
\* store's tree afterwards; hasLevel: the caller passed compression_level
LocalPut(local_name, hasLevel, io) ==
    LET path == PathOf(local_name).path
        c == copy(EntryAt(local, local_name), EntryAt(storage, local_name),
                  ParentOk(storage, path))
    IN  IF ~hasLevel \/ io = "fail" \/ c.err THEN [err |-> TRUE, sto |-> storage]
        ELSE [err |-> FALSE,
              sto |-> IF c.replaced THEN SetAt(storage, path, c.out) ELSE storage]

\* LocalFSStore.delete(remote_name)
LocalDelete(remote_name) ==
    IF Exists(EntryAt(storage, remote_name))
    THEN SetAt(storage, PathOf(remote_name).path, NoEnt)
    ELSE storage

(* ----------------------------- S3FSStore ------------------------------- *)
NoObj == [k |-> "none"]
Obj(body, lm) == [k |-> "obj", body |-> body, lm |-> lm]
\* what upload_fileobj sends of a stream that was not rewound
EmptyBytes == [kind |-> "empty"]
\* a gzip-compressed tar of the tree at base_dir / name
Tar(name, tree) == [kind |-> "tar", name |-> name, tree |-> tree]

NoTs == <<>>
\* last_modified.strftime(dt_format): day.month.2-digit-year ...
strftime(ts) == <<ts[1] % 100, ts[2]>>
\* datetime.strptime(text, dt_format)
strptime(text) == <<(IF text[1] < 69 THEN 2000 ELSE 1900) + text[1], text[2]>>

get_remote_last_modified(object_name) == bucket[object_name].lm

get_local_last_modified(loc, local_name) ==
    LET f == GetAt(EntryAt(loc, local_name), <<MarkerName>>)
    IN  IF ~IsFile(f) THEN NoTs ELSE strptime(f.c)

\* write_text of the marker below base_dir / dir_name
save_local_last_modified(loc, dir_name, last_modified) ==
    LET p == PathOf(dir_name)
    IN  IF p.ok /\ IsDir(GetAt(loc, p.path)) /\ ~IsDir(GetAt(loc, Append(p.path, MarkerName)))
        THEN [err |-> FALSE,
              loc |-> SetAt(loc, Append(p.path, MarkerName),
                            File(strftime(last_modified), MarkerSize))]
        ELSE [err |-> TRUE, loc |-> loc]

\* extraction of one archive member onto what is there: files are rewritten
\* in place, directories merged, the first failing member ends the extraction
RECURSIVE Overlay(_, _)
RECURSIVE OverlayKids(_, _, _)
Overlay(dst, src) ==
    IF IsFile(src) THEN
        IF IsDir(dst) THEN [err |-> TRUE, out |-> dst] ELSE [err |-> FALSE, out |-> src]
    ELSE IF IsFile(dst) THEN [err |-> Children(src) # <<>>, out |-> dst]
    ELSE OverlayKids(IF IsDir(dst) THEN dst ELSE EmptyDir, src, Children(src))
OverlayKids(d, src, names) ==
    IF names = <<>> THEN [err |-> FALSE, out |-> d]
    ELSE LET r == Overlay(d.ch[Head(names)], src.ch[Head(names)])
             d2 == Dir([d.ch EXCEPT ![Head(names)] = r.out])
         IN  IF r.err THEN [err |-> TRUE, out |-> d2] ELSE OverlayKids(d2, src, Tail(names))

\* shutil.unpack_archive(local_ziped_path, base_dir)
unpack_archive(body, loc) ==
    IF body.kind # "tar" THEN [err |-> TRUE, loc |-> loc]
    ELSE LET path == PathOf(body.name).path
             r == Overlay(GetAt(loc, path), body.tree)
         IN  [err |-> r.err, loc |-> SetAt(loc, path, r.out)]

\* S3FSStore._download
download(remote_ziped_name, last_modified) ==
    LET u == unpack_archive(bucket[remote_ziped_name].body, local)
        s == save_local_last_modified(u.loc, StripTarGz(remote_ziped_name), last_modified)
    IN  IF u.err THEN [err |-> TRUE, loc |-> u.loc, replaced |-> FALSE, dl |-> 1, synced |-> FALSE]
        ELSE [err |-> s.err, loc |-> s.loc, replaced |-> FALSE, dl |-> 1, synced |-> TRUE]

\* S3FSStore.get(local_name, base_dir); dl counts the download_file calls
S3Get(local_name, io) ==
    LET remote_ziped_name == ZipName(local_name)
        local_last_modified == get_local_last_modified(local, local_name)
    IN  IF io = "fail" \/ bucket[remote_ziped_name] = NoObj
        THEN [err |-> TRUE, loc |-> local, replaced |-> FALSE, dl |-> 0, synced |-> FALSE]
        ELSE LET remote_last_modified == get_remote_last_modified(remote_ziped_name)
             IN  IF local_last_modified # NoTs /\ local_last_modified = remote_last_modified
                 THEN [err |-> FALSE, loc |-> local, replaced |-> FALSE, dl |-> 0, synced |-> FALSE]
                 ELSE download(remote_ziped_name, remote_last_modified)

\* tar.add(path.name) with the working directory at base_dir: the name must
\* exist in base_dir, which holds the resource folders
InBaseDir(n) == <<n>> = folder_name

\* S3FSStore.put(local_name, base_dir, compression_level); avail is
\* psutil.virtual_memory().available, adv the seconds that pass before the upload
S3Put(local_name, avail, io, adv) ==
    LET remote_zipped_name == ZipName(local_name)
        dir_path == EntryAt(local, local_name)
        dir_size == GlobSize(dir_path)
        inMemory == (dir_size * 2) < avail
        fail == [err |-> TRUE, loc |-> local, bkt |-> bucket, clk |-> clock]
        body == IF inMemory THEN EmptyBytes ELSE Tar(local_name, dir_path)
        now == <<EpochYear, clock + adv>>
        s == save_local_last_modified(local, local_name, now)
    IN  IF inMemory /\ (~IsDir(dir_path) \/ \E n \in AllNames : Exists(dir_path.ch[n]) /\ ~InBaseDir(n))
        THEN fail
        ELSE IF ~inMemory /\ ~IsDir(dir_path) THEN fail
        ELSE IF io = "fail" THEN fail
        ELSE [err |-> s.err, loc |-> s.loc,
              bkt |-> [bucket EXCEPT ![remote_zipped_name] = Obj(body, now)],
              clk |-> clock + adv]

\* S3FSStore.delete(remote_name)
S3Delete(remote_name) == [bucket EXCEPT ![remote_name] = NoObj]

(* ---------------------------- FileStorage ------------------------------ *)
Ops == {"push", "push_path", "pull", "pull_path", "file_set", "file_get",
        "add", "get_path", "delete"}
\* positions inside the with FileLock(...) block
Section == {"pre", "get", "local", "put"}
Quiet(p) == pc[p] \in {"idle", "done"}

NoOp == [op |-> "none", name |-> "", c |-> <<>>, upd |-> FALSE, src |-> NoEnt]
Op(op, name, c, upd, src) == [op |-> op, name |-> name, c |-> c, upd |-> upd, src |-> src]
NoRes == [st |-> "none", val |-> <<>>]
Res(st, val) == [st |-> st, val |-> val]
NoRT == [name |-> "", c |-> <<>>, sync |-> FALSE]
\* what the backing store holds for the resource: the copied tree, or the
\* body of the archive object
StoreBody ==
    IF storeKind = "local" THEN storage
    ELSE IF bucket[ZipName(folder_name)] = NoObj THEN NoEnt
    ELSE bucket[ZipName(folder_name)].body
NoSnap == [set |-> FALSE, body |-> NoEnt]
Snap(body) == [set |-> TRUE, body |-> body]
NoTr == [get |-> "none", put |-> "none", dl |-> 0, fresh |-> FALSE, exp |-> NoRT,
         gone |-> FALSE, prev |-> NoSnap]

\* the calls a caller can make: operation and arguments
Calls ==
    {Op("push", "", <<>>, FALSE, NoEnt), Op("pull", "", <<>>, FALSE, NoEnt)}
    \cup {Op("push_path", n, <<>>, FALSE, NoEnt) : n \in Names}
    \cup {Op("pull_path", n, <<>>, u, NoEnt) : n \in Names, u \in BOOLEAN}
    \cup {Op("file_set", n, c, FALSE, NoEnt) : n \in Names, c \in Content}
    \cup {Op("file_get", n, <<>>, FALSE, NoEnt) : n \in Names}
    \cup {Op("add", n, <<>>, FALSE, s) : n \in Names,
              s \in {File(<<1>>, 1), EmptyDir, NoEnt}}
    \cup {Op("get_path", n, <<>>, FALSE, NoEnt) : n \in Names \cup {AbsPath}}
    \cup {Op("delete", n, <<>>, FALSE, NoEnt) : n \in Names \cup {AbsPath, RootArg}}

\* the calls made while another process is inside an operation
ConcCalls ==
    {Op("file_set", "a", <<1>>, FALSE, NoEnt), Op("pull", "", <<>>, FALSE, NoEnt),
     Op("delete", RootArg, <<>>, FALSE, NoEnt)}

\* threads of one process, the FileStorage instances they call through (each
\* with the S3FSStore that its FsStore() call made), and the directories the
\* process can be in
Threads == {1, 2}
Insts == {1, 2}
StartDir == "start"
BaseDir == "base_dir"
IdleThread == [pc |-> "idle", inst |-> 1, old_cwd |-> StartDir, dir |-> NoEnt,
               todo |-> <<>>, st |-> "none", up |-> "none", n |-> 0]

\* what a resource pushed from another host left in the backing store
SeedTree ==
    Dir([x \in AllNames |->
            IF x = LockName THEN File(<<>>, 0)
            ELSE IF x = "a" THEN File(<<1>>, 1) ELSE NoEnt])

\* the archive of a resource pushed from another host that had synced it
\* a year before: make_archive packs that host's marker with the rest
SeedArchive ==
    Dir([SeedTree.ch EXCEPT
            ![MarkerName] = File(strftime(<<EpochYear - 1, 0>>), MarkerSize)])

\* where a resource is found at start: nowhere, in the backing store, or in
\* the local directory left by an earlier run
Seeds == {"none", "store", "local"}

Init ==
    /\ storeKind \in {"local", "s3"}
    /\ \E seed \in Seeds :
          /\ local = IF seed = "local" THEN SeedTree ELSE EmptyDir
          /\ lockIno = IF seed = "local" THEN 1 ELSE 0
          /\ storage = IF seed = "store" /\ storeKind = "local" THEN SeedTree ELSE NoEnt
          /\ bucket = [k \in Keys |->
                          IF seed = "store" /\ storeKind = "s3" /\ k = ZipName(folder_name)
                          THEN Obj(Tar(folder_name, SeedArchive), <<EpochYear, 0>>)
                          ELSE NoObj]
    /\ clock = 0
    /\ pc = [p \in Procs |-> "idle"]
    /\ cur = [p \in Procs |-> NoOp]
    /\ sync \in [Procs -> BOOLEAN]
    /\ fd = [p \in Procs |-> 0]
    /\ holds = [p \in Procs |-> FALSE]
    /\ res = [p \in Procs |-> NoRes]
    /\ tr = [p \in Procs |-> NoTr]
    /\ deleted = [p \in Procs |-> FALSE]
    /\ solo = [p \in Procs |-> FALSE]
    /\ rt = NoRT
    /\ lastSync = NoTs
    /\ lastPush = NoSnap
    /\ nOps = 0
    /\ cwd = StartDir
    /\ thread_lock = [i \in Insts |-> 0]
    /\ th = [t \in Threads |-> IdleThread]

LockFile(t) == GetAt(t, <<LockName>>)

\* an inode number in use neither by dir.lock nor by an open file
FreshIno ==
    CHOOSE i \in 1..(Cardinality(Procs) + 2) :
        /\ i # lockIno /\ \A q \in Procs : fd[q] # i
        /\ \A j \in 1..(i - 1) : j = lockIno \/ \E q \in Procs : fd[q] = j

\* the inode of dir.lock once the local tree has become t; replaced: the
\* folder was removed and built anew
LockInoAfter(t, replaced) ==
    IF ~IsFile(LockFile(t)) THEN 0
    ELSE IF replaced \/ lockIno = 0 THEN FreshIno
    ELSE lockIno

SetLocal(t, replaced) ==
    /\ local' = t
    /\ lockIno' = LockInoAfter(t, replaced)

\* FileStorage.__init__: a new instance of process p
Construct(p) ==
    /\ pc[p] = "idle"
    /\ \E s \in BOOLEAN : sync' = [sync EXCEPT ![p] = s]
    /\ deleted' = [deleted EXCEPT ![p] = FALSE]
    /\ SetLocal(IF Exists(local) THEN local ELSE EmptyDir, FALSE)
    /\ solo' = [q \in Procs |-> FALSE]
    /\ UNCHANGED <<storeKind, storage, bucket, clock, pc, cur, fd, holds, res, tr,
                   rt, lastSync, nOps, lastPush>>
    /\ UNCHANGED putVars

\* the operation's outcome reaches the caller of process p
Return(p) ==
    /\ pc[p] = "done"
    /\ pc' = [pc EXCEPT ![p] = "idle"]
    /\ cur' = [cur EXCEPT ![p] = NoOp]
    /\ res' = [res EXCEPT ![p] = NoRes]
    /\ tr' = [tr EXCEPT ![p] = NoTr]
    /\ solo' = [solo EXCEPT ![p] = FALSE]
    /\ UNCHANGED <<storeKind, local, lockIno, storage, bucket, clock, sync,
                   fd, holds, deleted, rt, lastSync, nOps, lastPush>>
    /\ UNCHANGED putVars

\* a caller of process p invokes an operation of its instance
Call(p) ==
    /\ pc[p] = "idle"
    /\ nOps < MaxOps
    /\ \E call \in (IF \A o \in Procs \ {p} : Quiet(o) THEN Calls ELSE ConcCalls) :
          /\ cur' = [cur EXCEPT ![p] = call]
          /\ rt' = NoRT
          /\ lastPush' = NoSnap
          /\ tr' = [q \in Procs |->
                      IF q = p
                      THEN [NoTr EXCEPT !.exp = IF call.op = "file_get" /\ rt.name = call.name
                                                THEN rt ELSE NoRT,
                                        !.gone = deleted[p],
                                        !.prev = IF call.op = "push" THEN lastPush
                                                 ELSE NoSnap]
                      ELSE [tr[q] EXCEPT !.exp = NoRT]]
    /\ pc' = [pc EXCEPT ![p] = "enter"]
    /\ res' = [res EXCEPT ![p] = NoRes]
    /\ solo' = [q \in Procs |-> IF q = p THEN \A o \in Procs \ {p} : Quiet(o) ELSE FALSE]
    /\ nOps' = nOps + 1
    /\ UNCHANGED <<storeKind, local, lockIno, storage, bucket, clock, sync,
                   fd, holds, deleted, lastSync>>
    /\ UNCHANGED putVars

(* ------------------------------ FileLock ------------------------------- *)
\* FileLock.__enter__, lines 152-157: make the directory and dir.lock
LockCreate(p) ==
    /\ pc[p] = "enter"
    /\ IF IsFile(LockFile(local))
       THEN UNCHANGED <<local, lockIno>>
       ELSE SetLocal(SetAt(local, <<LockName>>, File(<<>>, 0)), FALSE)
    /\ pc' = [pc EXCEPT ![p] = "open"]
    /\ UNCHANGED <<storeKind, storage, bucket, clock, cur, sync, fd, holds, res, tr,
                   deleted, solo, rt, lastSync, nOps, lastPush>>
    /\ UNCHANGED putVars

\* FileLock.__enter__, line 159: open(dir.lock); FileNotFoundError ends the
\* operation before its body
LockOpen(p) ==
    /\ pc[p] = "open"
    /\ IF IsFile(LockFile(local))
       THEN /\ fd' = [fd EXCEPT ![p] = lockIno]
            /\ pc' = [pc EXCEPT ![p] = "flock"]
            /\ res' = res
       ELSE /\ fd' = fd
            /\ pc' = [pc EXCEPT ![p] = "done"]
            /\ res' = [res EXCEPT ![p] = Res("LockUnavailable", <<>>)]
    /\ UNCHANGED <<storeKind, local, lockIno, storage, bucket, clock, cur,
                   sync, holds, tr, deleted, solo, rt, lastSync, nOps, lastPush>>
    /\ UNCHANGED putVars

\* some process holds the flock on inode i
Locked(i) == \E q \in Procs : holds[q] /\ fd[q] = i

\* the first position of the body of p's operation
FirstStep(p) ==
    CASE cur[p].op \in {"push", "push_path"} -> "put"
      [] cur[p].op \in {"pull", "pull_path"} -> "get"
      [] cur[p].op = "delete" -> "pre"
      [] OTHER -> IF sync[p] THEN "get" ELSE "local"

\* FileLock.__enter__, line 161: flock(LOCK_EX | LOCK_NB)
LockTry(p) ==
    /\ pc[p] = "flock"
    /\ IF Locked(fd[p])
       THEN /\ pc' = [pc EXCEPT ![p] = "wait"]
            /\ holds' = holds
       ELSE /\ pc' = [pc EXCEPT ![p] = FirstStep(p)]
            /\ holds' = [holds EXCEPT ![p] = TRUE]
    /\ UNCHANGED <<storeKind, local, lockIno, storage, bucket, clock, cur,
                   sync, fd, res, tr, deleted, solo, rt, lastSync, nOps, lastPush>>
    /\ UNCHANGED putVars

\* FileLock.__enter__, line 168: the blocking flock(LOCK_EX) returns
LockWait(p) ==
    /\ pc[p] = "wait"
    /\ ~Locked(fd[p])
    /\ pc' = [pc EXCEPT ![p] = FirstStep(p)]
    /\ holds' = [holds EXCEPT ![p] = TRUE]
    /\ UNCHANGED <<storeKind, local, lockIno, storage, bucket, clock, cur,
                   sync, fd, res, tr, deleted, solo, rt, lastSync, nOps, lastPush>>
    /\ UNCHANGED putVars

\* an exit that unlocks only when the body ended normally
ReleaseOnSuccess(h, p) == IF res[p].st = "ok" THEN [h EXCEPT ![p] = FALSE] ELSE h

\* FileLock.__exit__: flock(LOCK_UN) and close
Release(h, p) == [h EXCEPT ![p] = FALSE]

\* the with block is left, normally or by an exception
LockExit(p) ==
    /\ pc[p] = "exit"
    /\ holds' = Release(holds, p)
    /\ fd' = [fd EXCEPT ![p] = 0]
    /\ pc' = [pc EXCEPT ![p] = "done"]
    /\ rt' = IF cur[p].op = "file_set" /\ res[p].st = "ok" /\ solo[p]
             THEN [name |-> cur[p].name, c |-> cur[p].c, sync |-> sync[p]]
             ELSE rt
    /\ lastPush' = IF cur[p].op = "push" /\ res[p].st = "ok" /\ solo[p]
                   THEN Snap(StoreBody) ELSE lastPush
    /\ UNCHANGED <<storeKind, local, lockIno, storage, bucket, clock, cur,
                   sync, res, tr, deleted, solo, lastSync, nOps>>
    /\ UNCHANGED putVars

(* ------------------- FileStorage: the operations' bodies --------------- *)
\* FsStore(): the configured store's get
Get(local_name, io) ==
    IF storeKind = "local" THEN LocalGet(local_name, io) ELSE S3Get(local_name, io)

\* FsStore(): the configured store's put
Put(local_name, hasLevel, avail, io, adv) ==
    IF storeKind = "local"
    THEN LET r == LocalPut(local_name, hasLevel, io)
         IN  [err |-> r.err, loc |-> local, sto |-> r.sto, bkt |-> bucket, clk |-> clock]
    ELSE LET r == S3Put(local_name, avail, io, adv)
         IN  [err |-> r.err, loc |-> r.loc, sto |-> storage, bkt |-> r.bkt, clk |-> r.clk]

\* a pull that lets the store's exception leave
PullRaises(err) == IF err THEN "SyncFailure" ELSE "ok"

\* FileStorage._pull_no_lock: try: fs_store.get(...) except Exception: pass
pull_no_lock(err) == "ok"

\* FileStorage.pull_path, lines 411-415: the same try/except around get
pull_path_try(err) == "ok"

\* a push that swallows the store's exception
PushSwallows(err) == "ok"

\* FileStorage._push_no_lock: fs_store.put(...), exceptions leave the caller
push_no_lock(err) == IF err THEN "SyncFailure" ELSE "ok"

\* a write that leaves the file empty
FileWriteNothing(t, name, content) == SetAt(t, <<name>>, File(<<>>, 0))

\* FileStorage.file_set, lines 423-426: open(dest_abs_path, 'wb') and write
file_write(t, name, content) == SetAt(t, <<name>>, File(content, Len(content)))

\* remote last-modified of the resource's archive, NoTs when there is none
RemoteLm == IF bucket[ZipName(folder_name)] = NoObj THEN NoTs
            ELSE bucket[ZipName(folder_name)].lm

\* the operation of p ends inside the with block with status st
Finish(p, st, val) ==
    /\ res' = [res EXCEPT ![p] = Res(st, val)]
    /\ pc' = [pc EXCEPT ![p] = "exit"]

\* FileStorage.delete, lines 519-529: argument checks and _complete_removal
DoPre(p) ==
    /\ pc[p] = "pre"
    /\ IF cur[p].name = AbsPath
       THEN /\ Finish(p, "InvalidArgument", <<>>)
            /\ UNCHANGED <<local, lockIno, storage, bucket, deleted, lastSync>>
       ELSE IF cur[p].name = RootArg
       THEN \E io \in {"ok", "fail"} :
              IF io = "fail"
              THEN /\ Finish(p, "SyncFailure", <<>>)
                   /\ UNCHANGED <<local, lockIno, storage, bucket, deleted, lastSync>>
              ELSE /\ storage' = IF storeKind = "local" THEN LocalDelete(folder_name) ELSE storage
                   /\ bucket' = IF storeKind = "s3" THEN S3Delete(folder_name) ELSE bucket
                   /\ IF Exists(local)
                      THEN /\ SetLocal(NoEnt, TRUE)
                           /\ lastSync' = NoTs
                           /\ deleted' = [deleted EXCEPT ![p] = TRUE]
                           /\ Finish(p, "ok", <<>>)
                      ELSE /\ UNCHANGED <<local, lockIno, lastSync, deleted>>
                           /\ Finish(p, "OSError", <<>>)
       ELSE /\ pc' = [pc EXCEPT ![p] = IF sync[p] THEN "get" ELSE "local"]
            /\ UNCHANGED <<res, local, lockIno, storage, bucket, deleted, lastSync>>
    /\ UNCHANGED <<storeKind, clock, cur, sync, fd, holds, tr, solo, rt, nOps, lastPush>>
    /\ UNCHANGED putVars

\* a pull_path that never skips the store
PullPathNeverSkips(update, exists) == FALSE

\* FileStorage.pull_path, lines 407-410: update is False and the path exists
pull_path_skip(update, exists) == ~update /\ exists

\* the pull of an operation: pull, pull_path, or _pull_no_lock of a
\* synchronized file_set, file_get, add, get_path, delete
DoGet(p) ==
    /\ pc[p] = "get"
    /\ LET isPath == cur[p].op = "pull_path"
           name == IF isPath THEN JoinPath(folder_name, cur[p].name) ELSE folder_name
           last == cur[p].op \in {"pull", "pull_path"}
       IN  IF isPath /\ pull_path_skip(cur[p].upd, Exists(EntryAt(local, name)))
           THEN /\ Finish(p, "ok", <<>>)
                /\ UNCHANGED <<local, lockIno, tr, lastSync>>
           ELSE \E io \in {"ok", "fail"} :
                  LET r == Get(name, io)
                      st == IF isPath THEN pull_path_try(r.err) ELSE pull_no_lock(r.err)
                  IN  /\ SetLocal(r.loc, r.replaced)
                      /\ tr' = [tr EXCEPT ![p].get = IF r.err THEN "err" ELSE "ok",
                                          ![p].dl = r.dl,
                                          ![p].fresh = /\ storeKind = "s3"
                                                       /\ name = folder_name
                                                       /\ lastSync # NoTs
                                                       /\ lastSync = RemoteLm]
                      /\ lastSync' = IF r.synced /\ name = folder_name THEN RemoteLm ELSE lastSync
                      /\ IF st # "ok" THEN Finish(p, st, <<>>)
                         ELSE IF last THEN Finish(p, "ok", <<>>)
                         ELSE /\ pc' = [pc EXCEPT ![p] = "local"]
                              /\ res' = res
    /\ UNCHANGED <<storeKind, storage, bucket, clock, cur, sync, fd, holds, deleted,
                   solo, rt, nOps, lastPush>>
    /\ UNCHANGED putVars

\* a local step that is followed by a push in every mode
AlwaysPush(p) == pc' = [pc EXCEPT ![p] = "put"] /\ res' = res

\* after the local step: push when synchronized, else leave the with block
AfterLocal(p) ==
    IF sync[p]
    THEN pc' = [pc EXCEPT ![p] = "put"] /\ res' = res
    ELSE Finish(p, "ok", <<>>)

\* the local file operation of file_set, file_get, add, get_path, delete
DoLocal(p) ==
    /\ pc[p] = "local"
    /\ LET n == cur[p].name
           e == GetAt(local, <<n>>)
       IN  CASE cur[p].op = "file_set" ->
                  IF IsDir(local) /\ ~IsDir(e)
                  THEN /\ SetLocal(file_write(local, n, cur[p].c), FALSE)
                       /\ AfterLocal(p)
                  ELSE /\ Finish(p, "OSError", <<>>)
                       /\ UNCHANGED <<local, lockIno>>
             [] cur[p].op = "file_get" ->
                  /\ IF IsFile(e) THEN Finish(p, "ok", e.c) ELSE Finish(p, "NotFound", <<>>)
                  /\ UNCHANGED <<local, lockIno>>
             [] cur[p].op = "add" ->
                  LET c == copy(cur[p].src, e, IsDir(local))
                  IN  IF c.err
                      THEN /\ Finish(p, "OSError", <<>>)
                           /\ UNCHANGED <<local, lockIno>>
                      ELSE /\ SetLocal(IF c.replaced THEN SetAt(local, <<n>>, c.out) ELSE local,
                                       FALSE)
                           /\ AfterLocal(p)
             [] cur[p].op = "get_path" ->
                  IF n = AbsPath
                  THEN /\ Finish(p, "InvalidArgument", <<>>)
                       /\ UNCHANGED <<local, lockIno>>
                  ELSE /\ SetLocal(IF Exists(e) THEN local ELSE SetAt(local, <<n>>, EmptyDir),
                                   FALSE)
                       /\ Finish(p, "ok", <<n>>)
             [] cur[p].op = "delete" ->
                  IF ~Exists(e)
                  THEN /\ Finish(p, "NotFound", <<>>)
                       /\ UNCHANGED <<local, lockIno>>
                  ELSE IF IsDir(e) /\ Children(e) # <<>>
                  THEN /\ Finish(p, "OSError", <<>>)
                       /\ UNCHANGED <<local, lockIno>>
                  ELSE /\ SetLocal(SetAt(local, <<n>>, NoEnt), FALSE)
                       /\ AfterLocal(p)
    /\ UNCHANGED <<storeKind, storage, bucket, clock, cur, sync, fd, holds, tr,
                   deleted, solo, rt, lastSync, nOps, lastPush>>
    /\ UNCHANGED putVars

\* the push of an operation: push, push_path, or _push_no_lock of a
\* synchronized file_set, add, delete
DoPut(p) ==
    /\ pc[p] = "put"
    /\ \E io \in {"ok", "fail"}, avail \in AvailChoices, adv \in {0, 1} :
          LET isPath == cur[p].op = "push_path"
              name == IF isPath THEN JoinPath(folder_name, cur[p].name) ELSE folder_name
              r == Put(name, ~isPath, avail, io, adv)
          IN  /\ SetLocal(r.loc, FALSE)
              /\ storage' = r.sto
              /\ bucket' = r.bkt
              /\ clock' = r.clk
              /\ tr' = [tr EXCEPT ![p].put = IF r.err THEN "err" ELSE "ok"]
              /\ lastSync' = IF ~r.err /\ storeKind = "s3" /\ name = folder_name
                             THEN r.bkt[ZipName(folder_name)].lm ELSE lastSync
              /\ Finish(p, push_no_lock(r.err), <<>>)
    /\ UNCHANGED <<storeKind, cur, sync, fd, holds, deleted, solo, rt, nOps, lastPush>>
    /\ UNCHANGED putVars

Next ==
    \E p \in Procs :
        \/ Construct(p)
        \/ Call(p)
        \/ LockCreate(p)
        \/ LockOpen(p)
        \/ LockTry(p)
        \/ LockWait(p)
        \/ DoPre(p)
        \/ DoGet(p)
        \/ DoLocal(p)
        \/ DoPut(p)
        \/ LockExit(p)
        \/ Return(p)

Spec == Init /\ [][Next]_vars

(* ------------- S3FSStore.put, thread by thread in one process ---------- *)
\* the directories put is called on: an empty sub-directory, a resource
\* directory holding only its lock file, one holding a file as well
PutDirs == {EmptyDir, SetAt(EmptyDir, <<LockName>>, File(<<>>, 0)), SeedTree}

\* tar.add(name) resolves the bare name against the working directory
AddFinds(n) == cwd = BaseDir /\ InBaseDir(n)

\* th with the record of thread t replaced
ThreadAt(t, r) == [th EXCEPT ![t] = r]

PutInit ==
    /\ storeKind = "s3"
    /\ local = EmptyDir
    /\ lockIno = 0
    /\ storage = NoEnt
    /\ bucket = [k \in Keys |-> NoObj]
    /\ clock = 0
    /\ pc = [p \in Procs |-> "idle"]
    /\ cur = [p \in Procs |-> NoOp]
    /\ sync = [p \in Procs |-> FALSE]
    /\ fd = [p \in Procs |-> 0]
    /\ holds = [p \in Procs |-> FALSE]
    /\ res = [p \in Procs |-> NoRes]
    /\ tr = [p \in Procs |-> NoTr]
    /\ deleted = [p \in Procs |-> FALSE]
    /\ solo = [p \in Procs |-> FALSE]
    /\ rt = NoRT
    /\ lastSync = NoTs
    /\ lastPush = NoSnap
    /\ nOps = 0
    /\ cwd = StartDir
    /\ thread_lock = [i \in Insts |-> 0]
    /\ th = [t \in Threads |-> IdleThread]

\* lines 297-301: old_cwd = os.getcwd(), the directory size, the choice of
\* the build path
PutCall(t) ==
    /\ th[t].pc = "idle"
    /\ th[t].n < MaxPuts
    /\ \E i \in Insts, d \in PutDirs, avail \in AvailChoices :
          th' = ThreadAt(t, [pc |-> IF (GlobSize(d) * 2) < avail THEN "acquire"
                                    ELSE "archive",
                             inst |-> i, old_cwd |-> cwd, dir |-> d, todo |-> <<>>,
                             st |-> "none", up |-> "none", n |-> th[t].n + 1])
    /\ UNCHANGED <<cwd, thread_lock>>
    /\ UNCHANGED procVars

\* line 302: with self._thread_lock, the lock of the thread's store instance
PutAcquire(t) ==
    /\ th[t].pc = "acquire"
    /\ thread_lock[th[t].inst] = 0
    /\ thread_lock' = [thread_lock EXCEPT ![th[t].inst] = t]
    /\ th' = ThreadAt(t, [th[t] EXCEPT !.pc = "chdir"])
    /\ UNCHANGED cwd
    /\ UNCHANGED procVars

\* lines 303-305: os.chdir(base_dir), tarfile.open, dir_path.iterdir()
PutChdir(t) ==
    /\ th[t].pc = "chdir"
    /\ cwd' = BaseDir
    /\ th' = ThreadAt(t, [th[t] EXCEPT !.pc = "add", !.todo = Children(th[t].dir)])
    /\ UNCHANGED thread_lock
    /\ UNCHANGED procVars

\* lines 305-308: one turn of the loop; tar.add raises FileNotFoundError for
\* a name the working directory does not hold, which leaves the with blocks
\* (the thread lock is released) and put, skipping line 309
PutAdd(t) ==
    /\ th[t].pc = "add"
    /\ IF th[t].todo = <<>>
       THEN /\ th' = ThreadAt(t, [th[t] EXCEPT !.pc = "restore"])
            /\ UNCHANGED thread_lock
       ELSE IF AddFinds(Head(th[t].todo))
       THEN /\ th' = ThreadAt(t, [th[t] EXCEPT !.todo = Tail(@)])
            /\ UNCHANGED thread_lock
       ELSE /\ th' = ThreadAt(t, [th[t] EXCEPT !.pc = "done", !.st = "err"])
            /\ thread_lock' = [thread_lock EXCEPT ![th[t].inst] = 0]
    /\ UNCHANGED cwd
    /\ UNCHANGED procVars

\* line 309 and the end of the with block: os.chdir(old_cwd), lock released
PutRestore(t) ==
    /\ th[t].pc = "restore"
    /\ cwd' = th[t].old_cwd
    /\ thread_lock' = [thread_lock EXCEPT ![th[t].inst] = 0]
    /\ th' = ThreadAt(t, [th[t] EXCEPT !.pc = "upload"])
    /\ UNCHANGED procVars

\* lines 311-315 and 330-331: upload_fileobj of the stream, left at its end,
\* and the marker
PutUpload(t) ==
    /\ th[t].pc = "upload"
    /\ \E io \in {"ok", "fail"} :
          th' = ThreadAt(t, [th[t] EXCEPT !.pc = "done",
                                          !.st = IF io = "ok" THEN "ok" ELSE "err",
                                          !.up = IF io = "ok" THEN "empty" ELSE "none"])
    /\ UNCHANGED <<cwd, thread_lock>>
    /\ UNCHANGED procVars

\* lines 316-331: the on-disk path, make_archive, upload_file and the marker
PutArchive(t) ==
    /\ th[t].pc = "archive"
    /\ \E io \in {"ok", "fail"} :
          th' = ThreadAt(t, [th[t] EXCEPT !.pc = "done",
                                          !.st = IF io = "ok" THEN "ok" ELSE "err",
                                          !.up = IF io = "ok" THEN "tar" ELSE "none"])
    /\ UNCHANGED <<cwd, thread_lock>>
    /\ UNCHANGED procVars

\* put has returned or raised; the thread is free for its next call
PutReturn(t) ==
    /\ th[t].pc = "done"
    /\ th' = ThreadAt(t, [th[t] EXCEPT !.pc = "idle"])
    /\ UNCHANGED <<cwd, thread_lock>>
    /\ UNCHANGED procVars

PutNext ==
    \E t \in Threads :
        \/ PutCall(t)
        \/ PutAcquire(t)
        \/ PutChdir(t)
        \/ PutAdd(t)
        \/ PutRestore(t)
        \/ PutUpload(t)
        \/ PutArchive(t)
        \/ PutReturn(t)

PutSpec == PutInit /\ [][PutNext]_vars

(* ------------------------------ properties ----------------------------- *)
MutatingOps == {"file_set", "add", "delete", "get_path"}
InBody(p) == pc[p] \in Section
Ended(p) == pc[p] = "done"

\* C1: two processes running mutating operations on the resource directory
\* are never inside their locked sections (pull, local write, push) at once
LockExclusivity ==
    \A p, q \in Procs :
        (p # q /\ cur[p].op \in MutatingOps /\ cur[q].op \in MutatingOps)
            => ~(InBody(p) /\ InBody(q))

\* C2 as stated: a file_get that follows a returned file_set of the same name,
\* with no other operation in between, returns the content that was set
RoundTrip ==
    \A p \in Procs :
        (Ended(p) /\ cur[p].op = "file_get" /\ tr[p].exp # NoRT)
            => res[p] = Res("ok", tr[p].exp.c)

\* C2 amended: the same, when the file_set was synchronized or the file_get
\* is not
RoundTripSameMode ==
    \A p \in Procs :
        (Ended(p) /\ cur[p].op = "file_get" /\ tr[p].exp # NoRT
            /\ (tr[p].exp.sync \/ ~sync[p]))
            => res[p] = Res("ok", tr[p].exp.c)

\* a synchronized file_get returned what a synchronized file_set had written
RoundTripReached ==
    \E p \in Procs :
        /\ Ended(p) /\ cur[p].op = "file_get" /\ tr[p].exp # NoRT
        /\ tr[p].exp.sync /\ sync[p] /\ tr[p].get # "none"
        /\ res[p] = Res("ok", tr[p].exp.c)

\* C3: a pull made while the remote last-modified equals the one of the last
\* sync of the local cache downloads nothing
StalenessSkip ==
    \A p \in Procs :
        (Ended(p) /\ cur[p].op = "pull" /\ tr[p].fresh) => tr[p].dl = 0

\* the backing store holds no object of the resource
StoreAbsent ==
    IF storeKind = "local" THEN ~Exists(storage)
    ELSE bucket[ZipName(folder_name)] = NoObj

\* C4: once a root delete has returned, the local directory and the
\* resource's object in the backing store are both absent
RootDeleteRemovesAll ==
    \A p \in Procs :
        (Ended(p) /\ solo[p] /\ cur[p].op = "delete" /\ cur[p].name = RootArg
            /\ res[p].st = "ok")
            => (~Exists(local) /\ StoreAbsent)

\* C5: every operation invoked on an instance after its root delete fails
DeletedIsTerminal ==
    \A p \in Procs : (Ended(p) /\ tr[p].gone) => res[p].st # "ok"

\* C6: get_path and delete with an absolute path end with InvalidArgument,
\* and no step of their body pulls or changes the local tree
AbsolutePathRejected ==
    [][\A p \in Procs :
          (cur[p].name = AbsPath /\ InBody(p) /\ solo[p] /\ pc'[p] # pc[p])
              => /\ local' = local
                 /\ tr'[p].get = "none"
                 /\ pc'[p] = "exit" => res'[p].st = "InvalidArgument"]_vars

\* C7: a process inside the body of an operation holds the flock on the
\* file it opened, and holds none once the operation has ended, however it
\* ended
LockHeldThenReleased ==
    \A p \in Procs :
        /\ InBody(p) => (holds[p] /\ fd[p] # 0)
        /\ (pc[p] \in {"idle", "done"}) => ~holds[p]

\* an operation that raised inside its body has ended and holds no lock
RaisedAndReleased ==
    \E p \in Procs :
        /\ Ended(p) /\ ~holds[p]
        /\ res[p].st \in {"SyncFailure", "NotFound", "InvalidArgument", "OSError"}

\* C8: pull and pull_path end normally whatever the store's get did; only
\* the lock can make them fail
PullAbsorbsFailure ==
    \A p \in Procs :
        (pc[p] \in {"exit", "done"} /\ cur[p].op \in {"pull", "pull_path"})
            => /\ res[p].st \in {"ok", "LockUnavailable"}
               /\ tr[p].get = "err" => res[p].st = "ok"

\* a pull of a resource that was never pushed returned normally
PullOfNothingReturned ==
    \E p \in Procs :
        /\ Ended(p) /\ cur[p].op = "pull" /\ tr[p].get = "err"
        /\ StoreAbsent /\ res[p].st = "ok"

\* C9: an operation whose put failed ends with an error, and a push, or a
\* synchronized write, that ends normally has put without error
PushPropagatesFailure ==
    \A p \in Procs :
        (pc[p] \in {"exit", "done"}) =>
            /\ tr[p].put = "err" => res[p].st = "SyncFailure"
            /\ (/\ res[p].st = "ok"
                /\ \/ cur[p].op \in {"push", "push_path"}
                   \/ sync[p] /\ cur[p].op \in {"file_set", "add"}
                   \/ sync[p] /\ cur[p].op = "delete" /\ cur[p].name # RootArg)
               => tr[p].put = "ok"

\* a synchronized file_set whose push failed ended with the error
PushFailureReached ==
    \E p \in Procs :
        /\ Ended(p) /\ cur[p].op = "file_set" /\ sync[p]
        /\ tr[p].put = "err" /\ res[p].st = "SyncFailure"

\* the caller's files and directories of a tree
UserContent(t) == IF IsDir(t) THEN [n \in Names |-> t.ch[n]] ELSE [n \in Names |-> NoEnt]

\* the tree the backing store holds for the resource
StoreTree ==
    IF storeKind = "local" THEN storage
    ELSE IF bucket[ZipName(folder_name)] # NoObj
            /\ bucket[ZipName(folder_name)].body.kind = "tar"
         THEN bucket[ZipName(folder_name)].body.tree
         ELSE NoEnt

\* C10: when a synchronized read/write operation returns successfully, the
\* local resource directory and the backing store's copy hold the same content
ConvergentAtReturn ==
    \A p \in Procs :
        (/\ Ended(p) /\ solo[p] /\ sync[p] /\ res[p].st = "ok"
         /\ cur[p].op \in {"file_set", "file_get", "add", "get_path", "delete"}
         /\ cur[p].name # RootArg)
            => UserContent(local) = UserContent(StoreTree)

\* the two build strategies of S3FSStore.put applied to the local tree as it is
PutInMemory == S3Put(folder_name, MemoryAvail, "ok", 1)
PutOnDisk == S3Put(folder_name, DiskAvail, "ok", 1)
\* the tree that S3FSStore.get unpacks from the object a put uploaded
Unpacked(r) == unpack_archive(r.bkt[ZipName(folder_name)].body, NoEnt)

\* C11: whenever a put of the resource is about to run on a directory that
\* holds data, the in-memory build and the on-disk build both upload an
\* archive, and the two archives unpack to the same tree
ArchiveEquivalence ==
    \A p \in Procs :
        (/\ storeKind = "s3" /\ pc[p] = "put" /\ cur[p].op # "push_path"
         /\ IsDir(local) /\ GlobSize(local) > 0)
            => /\ ~PutInMemory.err /\ ~PutOnDisk.err
               /\ ~Unpacked(PutInMemory).err
               /\ Unpacked(PutInMemory) = Unpacked(PutOnDisk)

\* C12: a push that follows a returned push, with no call in between, ends
\* with the backing store holding the same content as after the first
IdempotentPush ==
    \A p \in Procs :
        (/\ Ended(p) /\ solo[p] /\ cur[p].op = "push" /\ res[p].st = "ok"
         /\ tr[p].prev.set)
            => StoreBody = tr[p].prev.body

\* C13: no two processes hold the lock of the resource directory at once
AtMostOneHolder ==
    \A p, q \in Procs : (p # q) => ~(holds[p] /\ holds[q])

\* the marker file of the resource directory
Marker == GetAt(local, <<MarkerName>>)

\* C15: with the remote store, a marker that is present holds the remote
\* last-modified of the last sync of the local directory, and it is present
\* once a put of the resource has succeeded
MarkerHoldsSyncedRemote ==
    storeKind = "s3" =>
        /\ IsFile(Marker) => (lastSync # NoTs /\ strptime(Marker.c) = lastSync)
        /\ \A p \in Procs :
              (/\ pc[p] = "exit" /\ tr[p].put = "ok" /\ cur[p].op # "push_path")
                  => IsFile(Marker)

\* C16: the archive a put of the resource has uploaded holds neither
\* dir.lock nor last_modified.txt
ArchiveExcludesLockAndMarker ==
    \A p \in Procs :
        (/\ storeKind = "s3" /\ pc[p] = "exit" /\ tr[p].put = "ok"
         /\ cur[p].op # "push_path" /\ StoreBody.kind = "tar")
            => /\ ~Exists(StoreBody.tree.ch[LockName])
               /\ ~Exists(StoreBody.tree.ch[MarkerName])

\* C17: a process enters the body of its operation, from the non-blocking or
\* from the blocking flock, only while no other process holds the lock
BlockingAcquisition ==
    [][\A p \in Procs :
          (pc[p] \in {"flock", "wait"} /\ pc'[p] \in Section)
              => \A q \in Procs \ {p} : ~holds[q]]_vars

\* the operations and arguments that act on local files in either mode
LocalOnly(p) ==
    /\ ~sync[p]
    /\ cur[p].op \in {"file_set", "file_get", "add", "get_path", "delete"}
    /\ cur[p].name # RootArg

\* C18: no step of a non-synchronized file_set, file_get, add, get_path or
\* non-root delete calls the store's get or put or changes what the store holds
NonSyncLocalOnly ==
    [][\A p \in Procs :
          (LocalOnly(p) /\ pc'[p] # pc[p])
              => /\ storage' = storage /\ bucket' = bucket
                 /\ tr'[p].get = "none" /\ tr'[p].put = "none"]_vars

\* a non-synchronized file_set returned and the store holds other content
NonSyncWriteReached ==
    \E p \in Procs :
        /\ Ended(p) /\ LocalOnly(p) /\ cur[p].op = "file_set" /\ res[p].st = "ok"
        /\ Exists(StoreTree) /\ UserContent(local) # UserContent(StoreTree)

\* C19: the step of pull_path that decides on the store call makes none and
\* leaves the local tree alone when update is False and the sub-path exists,
\* and calls the store's get otherwise
PullPathSkipsExisting ==
    [][\A p \in Procs :
          (cur[p].op = "pull_path" /\ pc[p] = "get" /\ pc'[p] # "get")
              => IF ~cur[p].upd
                    /\ Exists(EntryAt(local, JoinPath(folder_name, cur[p].name)))
                 THEN /\ tr'[p].get = "none" /\ tr'[p].dl = 0
                      /\ local' = local /\ storage' = storage /\ bucket' = bucket
                 ELSE tr'[p].get # "none"]_vars

\* a pull_path with update False returned over an existing sub-path without
\* calling a store that holds the resource
PullPathSkipReached ==
    \E p \in Procs :
        /\ Ended(p) /\ cur[p].op = "pull_path" /\ ~cur[p].upd
        /\ Exists(GetAt(local, <<cur[p].name>>)) /\ Exists(StoreTree)
        /\ tr[p].get = "none" /\ res[p].st = "ok"

\* the thread is between os.chdir(base_dir) and os.chdir(old_cwd)
InCwdSection(t) == th[t].pc \in {"chdir", "add", "restore"}

\* C14: at most one thread of the process is inside the section of put that
\* changes the working directory and adds files to the archive
SingleArchiveBuilder ==
    \A t, u \in Threads : (t # u) => ~(InCwdSection(t) /\ InCwdSection(u))

\* C20: whenever no thread is inside put, the working directory of the
\* process is the one in effect before the first put started
CwdRestored ==
    (\A t \in Threads : th[t].pc \in {"idle", "done"}) => cwd = StartDir

====
